---------------------------- MODULE Spec2Model ----------------------------
(***************************************************************************)
(* Model of caddy-dynamic-routing: the PEM bundle decoder                  *)
(* (tlsCertFromCertAndKeyPEMBundle), the Redis certificate getter          *)
(* (RedisCertGetter) and the routing middleware (Middleware).              *)
(*                                                                         *)
(* Go strings are sequences of one-character strings, so that formatting,  *)
(* joining and substring replacement are computed, not assumed.  A PEM     *)
(* block type label is the sequence of its space-separated words.          *)
(***************************************************************************)
EXTENDS Integers, Sequences, FiniteSets, TLC

VARIABLES
    input,      \* decoder: the bundle handed to tlsCertFromCertAndKeyPEMBundle
    dec,        \* decoder: the locals of the running call
    store,      \* the Redis hashes: <<key, field>> -> value or Absent
    storeUp,    \* whether the store answers
    mInput,     \* routing: the Caddyfile block given to the middleware
    mPhase,     \* routing: "absent" | "new" | "parsed" | "rejected" | "ready" | "closed"
    m,          \* routing: the Middleware struct
    req,        \* routing: the last request served
    rcgInput,   \* tls: the Caddyfile block given to the certificate getter
    rcgPhase,   \* tls: "absent" | "new" | "parsed" | "rejected" | "ready" | "closed"
    rcg,        \* tls: the RedisCertGetter struct
    hs          \* tls: the last handshake served

vars == <<input, dec, store, storeUp, mInput, mPhase, m, req,
          rcgInput, rcgPhase, rcg, hs>>

decVars == <<input, dec>>
resolverVars == <<store, storeUp, mInput, mPhase, m, req, rcgInput, rcgPhase, rcg, hs>>

(***************************************************************************)
(* Bounds                                                                  *)
(***************************************************************************)
\* longest bundle, in PEM blocks
MaxBlocks == 4
\* longest Caddyfile block, in option lines
MaxOpts == 2

NoErr == <<>>

(***************************************************************************)
(* PEM bundles                                                             *)
(***************************************************************************)
CERTIFICATE == <<"CERTIFICATE">>
EC_PARAMETERS == <<"EC", "PARAMETERS">>
EC_PRIVATE_KEY == <<"EC", "PRIVATE", "KEY">>
PRIVATE_KEY == <<"PRIVATE", "KEY">>
RSA_PRIVATE_KEY == <<"RSA", "PRIVATE", "KEY">>
FOO == <<"FOO">>
PUBLIC_KEY == <<"PUBLIC", "KEY">>

\* A block is its type label and its body; a body names the key material
\* it carries ("a" and "b" are two different key pairs).
Block(t, b) == [Type |-> t, Body |-> b]

Blocks ==
    { Block(t, b) : t \in {CERTIFICATE, EC_PRIVATE_KEY, PRIVATE_KEY}, b \in {"a", "b"} }
    \cup { Block(t, "a") : t \in {EC_PARAMETERS, RSA_PRIVATE_KEY, FOO, PUBLIC_KEY} }

SeqsUpTo(S, n) == UNION { [1..k -> S] : k \in 0..n }

Bundles == SeqsUpTo(Blocks, MaxBlocks)

\* strings.HasSuffix(derBlock.Type, " PRIVATE KEY"): the label ends in the
\* words PRIVATE KEY with a space, hence at least one more word, before them
HasSuffixPrivateKey(t) ==
    /\ Len(t) >= 3
    /\ t[Len(t) - 1] = "PRIVATE"
    /\ t[Len(t)] = "KEY"

ErrECPairing == <<"expected elliptic private key to immediately follow EC parameters">>
ErrUnrecognized(t) == <<"unrecognized PEM block type: ", t>>
ErrParsePEM == <<"failed to parse PEM data">>
ErrNoKey == <<"no private key block found">>
ErrKeyPair == <<"making X509 key pair: ", <<"tls: private key does not match public key">>>>

\* the locals of tlsCertFromCertAndKeyPEMBundle at entry
NewDecode(bundle) ==
    [bundle |-> bundle, certBuilder |-> <<>>, keyBuilder |-> <<>>,
     foundKey |-> FALSE, pc |-> "loop", err |-> NoErr, cert |-> <<>>]

Fail(s, e) == [s EXCEPT !.pc = "done", !.err = e]

\* mutant: the pairing is demanded of every EC PARAMETERS block, a key
\* found or not, and only the first pair is kept
ECParametersBranchAlwaysPairs(s, derBlock, rest) ==
    LET seen == [s EXCEPT !.bundle = rest]
    IN  IF rest = <<>>
        THEN Fail(seen, ErrECPairing)
        ELSE IF Head(rest).Type # EC_PRIVATE_KEY
             THEN Fail([seen EXCEPT !.bundle = Tail(rest)], ErrECPairing)
             ELSE IF s.foundKey THEN [seen EXCEPT !.bundle = Tail(rest)]
                  ELSE [seen EXCEPT !.bundle = Tail(rest),
                                    !.keyBuilder = @ \o <<derBlock, Head(rest)>>,
                                    !.foundKey = TRUE]

\* the EC PARAMETERS branch of the loop, the block already decoded
ECParametersBranch(s, derBlock, rest) ==
    IF ~s.foundKey
    THEN LET withParams == [s EXCEPT !.bundle = rest,
                                     !.keyBuilder = Append(@, derBlock)]
         IN  IF rest = <<>>
             THEN Fail(withParams, ErrECPairing)
             ELSE IF Head(rest).Type # EC_PRIVATE_KEY
                  THEN Fail([withParams EXCEPT !.bundle = Tail(rest)], ErrECPairing)
                  ELSE [withParams EXCEPT !.bundle = Tail(rest),
                                          !.keyBuilder = Append(@, Head(rest)),
                                          !.foundKey = TRUE]
    ELSE [s EXCEPT !.bundle = rest]

\* mutant: every private key block is appended, not only the first
PrivateKeyBranchEveryKey(s, derBlock, rest) ==
    [s EXCEPT !.bundle = rest, !.keyBuilder = Append(@, derBlock), !.foundKey = TRUE]

\* the private key branch of the loop
PrivateKeyBranch(s, derBlock, rest) ==
    IF ~s.foundKey
    THEN [s EXCEPT !.bundle = rest, !.keyBuilder = Append(@, derBlock),
                   !.foundKey = TRUE]
    ELSE [s EXCEPT !.bundle = rest]

\* mutant: a block of an unrecognized type is skipped
LoopIterationSkipsUnrecognized(s) ==
    IF s.bundle = <<>>
    THEN [s EXCEPT !.pc = "checks"]
    ELSE LET derBlock == Head(s.bundle)
             rest == Tail(s.bundle)
         IN  IF derBlock.Type = CERTIFICATE
             THEN [s EXCEPT !.bundle = rest, !.certBuilder = Append(@, derBlock)]
             ELSE IF derBlock.Type = EC_PARAMETERS
             THEN ECParametersBranch(s, derBlock, rest)
             ELSE IF derBlock.Type = PRIVATE_KEY \/ HasSuffixPrivateKey(derBlock.Type)
             THEN PrivateKeyBranch(s, derBlock, rest)
             ELSE [s EXCEPT !.bundle = rest]

\* one iteration of the scanning loop: pem.Decode takes the next block off
\* the bundle (nil when none is left); pem.Encode of a decoded block into a
\* bytes.Buffer appends it and does not fail
LoopIteration(s) ==
    IF s.bundle = <<>>
    THEN [s EXCEPT !.pc = "checks"]
    ELSE LET derBlock == Head(s.bundle)
             rest == Tail(s.bundle)
         IN  IF derBlock.Type = CERTIFICATE
             THEN [s EXCEPT !.bundle = rest, !.certBuilder = Append(@, derBlock)]
             ELSE IF derBlock.Type = EC_PARAMETERS
             THEN ECParametersBranch(s, derBlock, rest)
             ELSE IF derBlock.Type = PRIVATE_KEY \/ HasSuffixPrivateKey(derBlock.Type)
             THEN PrivateKeyBranch(s, derBlock, rest)
             ELSE Fail([s EXCEPT !.bundle = rest], ErrUnrecognized(derBlock.Type))

\* mutant: the key accumulator is tested first
PostScanChecksKeyFirst(s) ==
    IF Len(s.keyBuilder) = 0 THEN Fail(s, ErrNoKey)
    ELSE IF Len(s.certBuilder) = 0 THEN Fail(s, ErrParsePEM)
    ELSE [s EXCEPT !.pc = "keypair"]

\* the emptiness checks after the loop
PostScanChecks(s) ==
    IF Len(s.certBuilder) = 0 THEN Fail(s, ErrParsePEM)
    ELSE IF Len(s.keyBuilder) = 0 THEN Fail(s, ErrNoKey)
    ELSE [s EXCEPT !.pc = "keypair"]

\* tls.X509KeyPair on the two accumulators: the leaf is the first
\* certificate, the key the first block of a private key type; the pair is
\* accepted when both carry the same key material.
X509KeyPair(certPEM, keyPEM) ==
    LET keys == SelectSeq(keyPEM, LAMBDA b :
                    b.Type = PRIVATE_KEY \/ HasSuffixPrivateKey(b.Type))
    IN  IF keys # <<>> /\ certPEM # <<>> /\ Head(certPEM).Body = Head(keys).Body
        THEN [err |-> NoErr, cert |-> <<certPEM, Head(keys)>>]
        ELSE [err |-> ErrKeyPair, cert |-> <<>>]

\* the final step: construct the key pair
MakeKeyPair(s) ==
    LET r == X509KeyPair(s.certBuilder, s.keyBuilder)
    IN  [s EXCEPT !.pc = "done", !.err = r.err, !.cert = r.cert]

DecodeStep(s) ==
    IF s.pc = "loop" THEN LoopIteration(s)
    ELSE IF s.pc = "checks" THEN PostScanChecks(s)
    ELSE IF s.pc = "keypair" THEN MakeKeyPair(s)
    ELSE s

RECURSIVE RunDecode(_)
RunDecode(s) == IF s.pc = "done" THEN s ELSE RunDecode(DecodeStep(s))

\* the whole function: (tls.Certificate, error)
tlsCertFromCertAndKeyPEMBundle(bundle) ==
    LET s == RunDecode(NewDecode(bundle))
    IN  [cert |-> s.cert, err |-> s.err]

(***************************************************************************)
(* Strings                                                                 *)
(***************************************************************************)
Placeholder == <<"{", "{", "t", "o", "k", "e", "n", "}", "}">>
Colon == <<":">>
EmptyString == <<>>

DefaultHost == <<"1", "2", "7", ".", "0", ".", "0", ".", "1">>
DefaultPort == <<"6", "3", "7", "9">>
DefaultPrefix == <<"s">>
DefaultCertKey == <<"c", "e", "r", "t">>
DefaultTokenKey == <<"t", "o", "k", "e", "n">>

\* fmt.Sprintf("%s:%s", prefix, name)
Key(prefix, name) == prefix \o Colon \o name

\* strings.Join([]string{host, port}, ":")
JoinAddr(host, port) == host \o Colon \o port

\* strings.Index: the 0-based offset of the first occurrence, or -1
Index(s, old) ==
    LET hits == { i \in 0..(Len(s) - Len(old)) : SubSeq(s, i + 1, i + Len(old)) = old }
    IN  IF hits = {} THEN -1
        ELSE CHOOSE i \in hits : \A j \in hits : i <= j

\* strings.Replace(s, old, new, n) for a non-empty old: the first n
\* non-overlapping occurrences, left to right; all of them when n < 0
RECURSIVE Replace(_, _, _, _)
Replace(s, old, new, n) ==
    IF n = 0 \/ old = new THEN s
    ELSE LET j == Index(s, old)
         IN  IF j = -1 THEN s
             ELSE SubSeq(s, 1, j) \o new
                  \o Replace(SubSeq(s, j + Len(old) + 1, Len(s)), old, new, n - 1)

Digit == [c \in {"0", "1", "2", "3", "4", "5", "6", "7", "8", "9"} |->
             CASE c = "0" -> 0 [] c = "1" -> 1 [] c = "2" -> 2 [] c = "3" -> 3
               [] c = "4" -> 4 [] c = "5" -> 5 [] c = "6" -> 6 [] c = "7" -> 7
               [] c = "8" -> 8 [] c = "9" -> 9]

RECURSIVE ParseDigits(_, _)
ParseDigits(s, acc) ==
    IF s = <<>> THEN acc ELSE ParseDigits(Tail(s), acc * 10 + Digit[Head(s)])

\* strconv.Atoi: an optional sign and decimal digits (the options drawn
\* below are far shorter than what overflows an int)
Atoi(s) ==
    LET signed == s # <<>> /\ Head(s) \in {"+", "-"}
        body == IF signed THEN Tail(s) ELSE s
    IN  IF body = <<>> \/ \E i \in 1..Len(body) : body[i] \notin DOMAIN Digit
        THEN [n |-> 0, err |-> TRUE]
        ELSE [n |-> IF signed /\ Head(s) = "-" THEN 0 - ParseDigits(body, 0)
                    ELSE ParseDigits(body, 0),
              err |-> FALSE]

(***************************************************************************)
(* The store: Redis hashes, read with HGET                                 *)
(***************************************************************************)
Absent == [present |-> FALSE, val |-> <<>>]
Present(v) == [present |-> TRUE, val |-> v]

RedisNil == <<"redis: nil">>
ErrDial == <<"dial tcp: connection refused">>
ErrClosed == <<"redis: client is closed">>

LocalhostAddr ==
    <<"l", "o", "c", "a", "l", "h", "o", "s", "t", ":", "6", "3", "7", "9">>

\* Options.init, which redis.NewClient runs on the options it is pointed
\* at: an empty address becomes localhost:6379
OptionsInit(options) ==
    [options EXCEPT !.Addr = IF @ = <<>> THEN LocalhostAddr ELSE @]

\* redis.NewClient(&options): a pointer to a client, nil being <<>>; the
\* client holds the options as Options.init left them
NewClient(options) == <<[options |-> OptionsInit(options), closed |-> FALSE]>>
\* redisClient.Close()
Close(client) == <<[client[1] EXCEPT !.closed = TRUE]>>
IsClosed(client) == client # <<>> /\ client[1].closed

\* redisClient.HGet(ctx, key, field).Result()
HGet(client, key, field) ==
    IF IsClosed(client) THEN [val |-> <<>>, err |-> ErrClosed]
    ELSE IF ~storeUp THEN [val |-> <<>>, err |-> ErrDial]
    ELSE IF <<key, field>> \in DOMAIN store /\ store[<<key, field>>].present
         THEN [val |-> store[<<key, field>>].val, err |-> NoErr]
         ELSE [val |-> <<>>, err |-> RedisNil]

(***************************************************************************)
(* Caddyfile blocks                                                        *)
(*                                                                         *)
(* A block is a sequence of lines; a line is an option name and the        *)
(* arguments that follow it on the line (none or one).                     *)
(***************************************************************************)
Line(k, a) == [key |-> k, args |-> a]

OptHost == <<"h">>
OptPort == <<"1">>
OptDbNumber == <<"1">>
OptDbWord == <<"x">>
OptPrefix == <<"p">>
OptField == <<"k">>

\* the templates a domain option may carry
TemplateOnce == Placeholder \o <<".", "t">>
TemplateTwice == Placeholder \o <<"-">> \o Placeholder
TemplateNone == <<"x">>
Templates == {TemplateOnce, TemplateTwice, TemplateNone}

CommonLines ==
    { Line("host", <<OptHost>>), Line("port", <<OptPort>>),
      Line("db", <<OptDbNumber>>), Line("db", <<OptDbWord>>),
      Line("prefix", <<>>), Line("prefix", <<OptPrefix>>),
      Line("bogus", <<>>) }

TLSLines ==
    CommonLines \cup { Line("certKey", <<>>), Line("certKey", <<OptField>>) }

RoutingLines ==
    CommonLines
    \cup { Line("tokenKey", <<>>), Line("tokenKey", <<OptField>>), Line("domain", <<>>) }
    \cup { Line("domain", <<t>>) : t \in Templates }

TLSInputs == SeqsUpTo(TLSLines, MaxOpts)
RoutingInputs == SeqsUpTo(RoutingLines, MaxOpts)

\* d.NextArg(): whether an argument follows on the line
NextArg(line) == line.args # <<>>
\* d.Val() after a successful d.NextArg()
ArgVal(line) == Head(line.args)

\* d.ArgErr(): the text names d.Val(), the token the cursor is on
ErrArg(val) == <<"wrong argument count or unexpected line ending after ", val>>
ErrUnknownField(k) == <<"Unknown field: ", k>>
ErrExpectDomain == <<"expect domain value", "">>

\* redis.Options{Addr, DB}, zero value
ZeroOptions == [Addr |-> EmptyString, DB |-> 0]

\* new(RedisCertGetter)
NewRedisCertGetter ==
    [Prefix |-> EmptyString, CertKey |-> EmptyString,
     redisClient |-> <<>>, redisOptions |-> ZeroOptions]

\* the locals of an UnmarshalCaddyfile call at entry ("default config")
CertGetterDefaults(receiver) ==
    [host |-> DefaultHost, port |-> DefaultPort, db |-> 0,
     prefix |-> DefaultPrefix, certKey |-> DefaultCertKey,
     rcg |-> receiver, err |-> NoErr]

\* one pass of the switch in RedisCertGetter.UnmarshalCaddyfile
CertGetterOption(c, line) ==
    CASE line.key = "host" ->
            IF NextArg(line) THEN [c EXCEPT !.host = ArgVal(line)] ELSE c
      [] line.key = "port" ->
            IF NextArg(line) THEN [c EXCEPT !.port = ArgVal(line)] ELSE c
      [] line.key = "db" ->
            IF NextArg(line)
            THEN IF Atoi(ArgVal(line)).err
                 THEN [c EXCEPT !.err = ErrArg(ArgVal(line))]
                 ELSE [c EXCEPT !.db = Atoi(ArgVal(line)).n]
            ELSE c
      [] line.key = "prefix" ->
            LET prefix == IF NextArg(line) THEN ArgVal(line) ELSE c.prefix
            IN  [c EXCEPT !.prefix = prefix, !.rcg.Prefix = prefix]
      [] line.key = "certKey" ->
            LET certKey == IF NextArg(line) THEN ArgVal(line) ELSE c.certKey
            IN  [c EXCEPT !.certKey = certKey, !.rcg.CertKey = certKey]
      [] OTHER -> [c EXCEPT !.err = ErrUnknownField(line.key)]

RECURSIVE CertGetterBlock(_, _)
CertGetterBlock(c, lines) ==
    IF lines = <<>> \/ c.err # NoErr THEN c
    ELSE CertGetterBlock(CertGetterOption(c, Head(lines)), Tail(lines))

\* RedisCertGetter.UnmarshalCaddyfile: the receiver after the call, and
\* the error returned
RedisCertGetterUnmarshalCaddyfile(receiver, lines) ==
    LET c == CertGetterBlock(CertGetterDefaults(receiver), lines)
    IN  IF c.err # NoErr THEN [rcg |-> c.rcg, err |-> c.err]
        ELSE [rcg |-> [c.rcg EXCEPT !.redisOptions =
                          [Addr |-> JoinAddr(c.host, c.port), DB |-> c.db]],
              err |-> NoErr]

\* var m Middleware
NewMiddleware ==
    [Prefix |-> EmptyString, TokenKey |-> EmptyString, Domain |-> EmptyString,
     redisClient |-> <<>>, redisOptions |-> ZeroOptions]

MiddlewareDefaults(receiver) ==
    [host |-> DefaultHost, port |-> DefaultPort, db |-> 0,
     prefix |-> DefaultPrefix, tokenKey |-> DefaultTokenKey,
     m |-> receiver, err |-> NoErr]

\* one pass of the switch in Middleware.UnmarshalCaddyfile
MiddlewareOption(c, line) ==
    CASE line.key = "host" ->
            IF NextArg(line) THEN [c EXCEPT !.host = ArgVal(line)] ELSE c
      [] line.key = "port" ->
            IF NextArg(line) THEN [c EXCEPT !.port = ArgVal(line)] ELSE c
      [] line.key = "db" ->
            IF NextArg(line)
            THEN IF Atoi(ArgVal(line)).err
                 THEN [c EXCEPT !.err = ErrArg(ArgVal(line))]
                 ELSE [c EXCEPT !.db = Atoi(ArgVal(line)).n]
            ELSE c
      [] line.key = "prefix" ->
            LET prefix == IF NextArg(line) THEN ArgVal(line) ELSE c.prefix
            IN  [c EXCEPT !.prefix = prefix, !.m.Prefix = prefix]
      [] line.key = "domain" ->
            IF ~NextArg(line) THEN [c EXCEPT !.err = ErrExpectDomain]
            ELSE [c EXCEPT !.m.Domain = ArgVal(line)]
      [] line.key = "tokenKey" ->
            LET tokenKey == IF NextArg(line) THEN ArgVal(line) ELSE c.tokenKey
            IN  [c EXCEPT !.tokenKey = tokenKey, !.m.TokenKey = tokenKey]
      [] OTHER -> [c EXCEPT !.err = ErrUnknownField(line.key)]

RECURSIVE MiddlewareBlock(_, _)
MiddlewareBlock(c, lines) ==
    IF lines = <<>> \/ c.err # NoErr THEN c
    ELSE MiddlewareBlock(MiddlewareOption(c, Head(lines)), Tail(lines))

\* Middleware.UnmarshalCaddyfile: the receiver after the call, and the
\* error returned
MiddlewareUnmarshalCaddyfile(receiver, lines) ==
    LET c == MiddlewareBlock(MiddlewareDefaults(receiver), lines)
    IN  IF c.err # NoErr THEN [m |-> c.m, err |-> c.err]
        ELSE [m |-> [c.m EXCEPT !.redisOptions =
                        [Addr |-> JoinAddr(c.host, c.port), DB |-> c.db]],
              err |-> NoErr]

(***************************************************************************)
(* The routing middleware                                                  *)
(***************************************************************************)
HostA == <<"a">>
HostB == <<"b">>
Hosts == {HostA, HostB}

TokenAB == <<"a", "b">>
Tokens == {EmptyString, TokenAB}

\* the hash fields tenants write for host "a": under the empty prefix and
\* field, under the documented defaults, and under the configured options
RoutingCells ==
    { <<Key(EmptyString, HostA), EmptyString>>,
      <<Key(DefaultPrefix, HostA), DefaultTokenKey>>,
      <<Key(OptPrefix, HostA), OptField>> }

TLSCells ==
    { <<Key(EmptyString, HostA), EmptyString>>,
      <<Key(DefaultPrefix, HostA), DefaultCertKey>>,
      <<Key(OptPrefix, HostA), OptField>> }

ErrDownstream == <<"downstream handler error">>
NextReturns == {NoErr, ErrDownstream}

\* tick flips with every request served
NoRequest ==
    [tick |-> FALSE, served |-> FALSE, host |-> EmptyString, lookup |-> <<>>, fetchErr |-> NoErr,
     token |-> EmptyString, outHost |-> EmptyString, nextCalls |-> 0, ret |-> NoErr]

\* The handler parseCaddyfile returns by value reaches the running config
\* as JSON and is decoded into a new(Middleware): the tagged fields
\* (prefix, tokenKey, domain) are carried over, the unexported ones are not
MiddlewareFromJSON(mw) ==
    [NewMiddleware EXCEPT !.Prefix = mw.Prefix, !.TokenKey = mw.TokenKey,
                          !.Domain = mw.Domain]

\* Middleware.Provision: NewClient is given &m.redisOptions, so the field
\* itself holds the initialised options afterwards
MiddlewareProvision(mw) ==
    [mw EXCEPT !.redisClient = NewClient(mw.redisOptions),
               !.redisOptions = OptionsInit(mw.redisOptions)]

\* Middleware.Cleanup
MiddlewareCleanup(mw) == [mw EXCEPT !.redisClient = Close(mw.redisClient)]

\* mutant: every occurrence of the placeholder is replaced
ServeHTTPCallReplacesAll(host, nextRet) ==
    LET key == Key(m.Prefix, host)
        reply == HGet(m.redisClient, key, m.TokenKey)
        lookup == <<[key |-> key, field |-> m.TokenKey]>>
    IN  IF reply.err # NoErr
        THEN [tick |-> ~req.tick, served |-> TRUE, host |-> host, lookup |-> lookup,
              fetchErr |-> reply.err, token |-> EmptyString,
              outHost |-> host, nextCalls |-> 0, ret |-> reply.err]
        ELSE [tick |-> ~req.tick, served |-> TRUE, host |-> host, lookup |-> lookup,
              fetchErr |-> NoErr, token |-> reply.val,
              outHost |-> IF reply.val # EmptyString
                          THEN Replace(m.Domain, Placeholder, reply.val, -1)
                          ELSE host,
              nextCalls |-> 1, ret |-> nextRet]

\* mutant: a failed fetch falls back to the incoming host and goes on
ServeHTTPCallFallsBack(host, nextRet) ==
    LET key == Key(m.Prefix, host)
        reply == HGet(m.redisClient, key, m.TokenKey)
        lookup == <<[key |-> key, field |-> m.TokenKey]>>
    IN  [tick |-> ~req.tick, served |-> TRUE, host |-> host, lookup |-> lookup,
         fetchErr |-> reply.err, token |-> reply.val,
         outHost |-> IF reply.err = NoErr /\ reply.val # EmptyString
                     THEN Replace(m.Domain, Placeholder, reply.val, 1)
                     ELSE host,
         nextCalls |-> 1, ret |-> nextRet]

\* mutant: an empty token ends the request without calling the next handler
ServeHTTPCallStopsOnEmptyToken(host, nextRet) ==
    LET key == Key(m.Prefix, host)
        reply == HGet(m.redisClient, key, m.TokenKey)
        lookup == <<[key |-> key, field |-> m.TokenKey]>>
    IN  IF reply.err # NoErr
        THEN [tick |-> ~req.tick, served |-> TRUE, host |-> host, lookup |-> lookup,
              fetchErr |-> reply.err, token |-> EmptyString,
              outHost |-> host, nextCalls |-> 0, ret |-> reply.err]
        ELSE IF reply.val = EmptyString
        THEN [tick |-> ~req.tick, served |-> TRUE, host |-> host, lookup |-> lookup,
              fetchErr |-> NoErr, token |-> reply.val,
              outHost |-> host, nextCalls |-> 0, ret |-> NoErr]
        ELSE [tick |-> ~req.tick, served |-> TRUE, host |-> host, lookup |-> lookup,
              fetchErr |-> NoErr, token |-> reply.val,
              outHost |-> Replace(m.Domain, Placeholder, reply.val, 1),
              nextCalls |-> 1, ret |-> nextRet]

\* Middleware.ServeHTTP on a request for host, the next handler returning
\* nextRet when it is called: what the call did
ServeHTTPCall(host, nextRet) ==
    LET key == Key(m.Prefix, host)
        reply == HGet(m.redisClient, key, m.TokenKey)
        lookup == <<[key |-> key, field |-> m.TokenKey]>>
    IN  IF reply.err # NoErr
        THEN [tick |-> ~req.tick, served |-> TRUE, host |-> host, lookup |-> lookup,
              fetchErr |-> reply.err, token |-> EmptyString,
              outHost |-> host, nextCalls |-> 0, ret |-> reply.err]
        ELSE [tick |-> ~req.tick, served |-> TRUE, host |-> host, lookup |-> lookup,
              fetchErr |-> NoErr, token |-> reply.val,
              outHost |-> IF reply.val # EmptyString
                          THEN Replace(m.Domain, Placeholder, reply.val, 1)
                          ELSE host,
              nextCalls |-> 1, ret |-> nextRet]

(***************************************************************************)
(* The certificate getter                                                  *)
(***************************************************************************)
ServerNames == {HostA, HostB}

BundleA == <<Block(CERTIFICATE, "a"), Block(PRIVATE_KEY, "a")>>
BundleB == <<Block(EC_PRIVATE_KEY, "b"), Block(CERTIFICATE, "b")>>
StoredBundles == {BundleA, BundleB}

NoOutcome == [cert |-> <<>>, err |-> NoErr]

\* tick flips with every handshake served; prev is what the handshake
\* before it returned, when that was for the same server name
NoHandshake ==
    [tick |-> FALSE, served |-> FALSE, name |-> EmptyString, reads |-> <<>>,
     outcome |-> NoOutcome, prev |-> NoOutcome]

\* The unmarshalled getter reaches the running config as JSON and is
\* decoded into a new(RedisCertGetter): the tagged fields (prefix, certKey)
\* are carried over, the unexported ones are not
RedisCertGetterFromJSON(g) ==
    [NewRedisCertGetter EXCEPT !.Prefix = g.Prefix, !.CertKey = g.CertKey]

\* RedisCertGetter.Provision: NewClient is given &rcg.redisOptions, so the
\* field itself holds the initialised options afterwards
RedisCertGetterProvision(g) ==
    [g EXCEPT !.redisClient = NewClient(g.redisOptions),
              !.redisOptions = OptionsInit(g.redisOptions)]

\* RedisCertGetter.Cleanup
RedisCertGetterCleanup(g) == [g EXCEPT !.redisClient = Close(g.redisClient)]

\* mutant: a certificate served before for the name is served again
\* without a store read
GetCertificateCallCached(serverName) ==
    LET key == Key(rcg.Prefix, serverName)
        reply == HGet(rcg.redisClient, key, rcg.CertKey)
    IN  IF hs.served /\ hs.name = serverName /\ hs.outcome.err = NoErr
        THEN [reads |-> <<>>, outcome |-> hs.outcome]
        ELSE [reads |-> <<[key |-> key, field |-> rcg.CertKey]>>,
              outcome |-> IF reply.err # NoErr
                          THEN [cert |-> <<>>, err |-> reply.err]
                          ELSE tlsCertFromCertAndKeyPEMBundle(reply.val)]

\* RedisCertGetter.GetCertificate for hello.ServerName: the store reads it
\* made and the (certificate, error) it returned
GetCertificateCall(serverName) ==
    LET key == Key(rcg.Prefix, serverName)
        reply == HGet(rcg.redisClient, key, rcg.CertKey)
    IN  [reads |-> <<[key |-> key, field |-> rcg.CertKey]>>,
         outcome |-> IF reply.err # NoErr
                     THEN [cert |-> <<>>, err |-> reply.err]
                     ELSE tlsCertFromCertAndKeyPEMBundle(reply.val)]

(***************************************************************************)
(* Initial states                                                          *)
(***************************************************************************)
IdleDecoder ==
    /\ input = <<>>
    /\ dec = [NewDecode(<<>>) EXCEPT !.pc = "idle"]

NoMiddleware ==
    /\ mInput = <<>>
    /\ mPhase = "absent"
    /\ m = NewMiddleware
    /\ req = NoRequest

NoCertGetter ==
    /\ rcgInput = <<>>
    /\ rcgPhase = "absent"
    /\ rcg = NewRedisCertGetter
    /\ hs = NoHandshake

\* a bundle is handed to the decoder
InitDecode ==
    /\ input \in Bundles
    /\ dec = NewDecode(input)
    /\ store = <<>>
    /\ storeUp = TRUE
    /\ NoMiddleware
    /\ NoCertGetter

\* a routing block is about to be parsed into a new Middleware
InitRouting ==
    /\ IdleDecoder
    /\ store = [c \in RoutingCells |-> Absent]
    /\ storeUp = TRUE
    /\ mInput \in RoutingInputs
    /\ mPhase = "new"
    /\ m = NewMiddleware
    /\ req = NoRequest
    /\ NoCertGetter

\* a get_certificate block is about to be parsed into a new RedisCertGetter
InitTLS ==
    /\ IdleDecoder
    /\ store = [c \in TLSCells |-> Absent]
    /\ storeUp = TRUE
    /\ NoMiddleware
    /\ rcgInput \in TLSInputs
    /\ rcgPhase = "new"
    /\ rcg = NewRedisCertGetter
    /\ hs = NoHandshake

InitResolver == InitRouting \/ InitTLS

(***************************************************************************)
(* Actions                                                                 *)
(***************************************************************************)
\* decoder: one iteration of the loop
DecodeLoop ==
    /\ dec.pc = "loop"
    /\ dec' = LoopIteration(dec)
    /\ UNCHANGED <<input, resolverVars>>

\* decoder: the checks after the loop
DecodeChecks ==
    /\ dec.pc = "checks"
    /\ dec' = PostScanChecks(dec)
    /\ UNCHANGED <<input, resolverVars>>

\* decoder: key pair construction and return
DecodeKeyPair ==
    /\ dec.pc = "keypair"
    /\ dec' = MakeKeyPair(dec)
    /\ UNCHANGED <<input, resolverVars>>

\* parseCaddyfile: a new Middleware unmarshals its block
ParseRouting ==
    /\ mPhase = "new"
    /\ LET r == MiddlewareUnmarshalCaddyfile(m, mInput)
       IN  /\ m' = r.m
           /\ mPhase' = IF r.err = NoErr THEN "parsed" ELSE "rejected"
    /\ UNCHANGED <<decVars, store, storeUp, mInput, req, rcgInput, rcgPhase, rcg, hs>>

\* the adapted block is consumed; the module decoded from the handler's
\* JSON is provisioned
ProvisionRouting ==
    /\ mPhase = "parsed"
    /\ m' = MiddlewareProvision(MiddlewareFromJSON(m))
    /\ mPhase' = "ready"
    /\ mInput' = <<>>
    /\ UNCHANGED <<decVars, store, storeUp, req, rcgInput, rcgPhase, rcg, hs>>

\* a request is served; one still in flight when the config is unloaded is
\* served on the closed client
ServeHTTP(host) ==
    /\ mPhase \in {"ready", "closed"}
    /\ \E nextRet \in NextReturns : req' = ServeHTTPCall(host, nextRet)
    /\ UNCHANGED <<decVars, store, storeUp, mInput, mPhase, m, rcgInput, rcgPhase, rcg, hs>>

\* the config is unloaded: Middleware.Cleanup
CleanupRouting ==
    /\ mPhase = "ready"
    /\ m' = MiddlewareCleanup(m)
    /\ mPhase' = "closed"
    /\ UNCHANGED <<decVars, store, storeUp, mInput, req, rcgInput, rcgPhase, rcg, hs>>

\* a new RedisCertGetter unmarshals its block
ParseTLS ==
    /\ rcgPhase = "new"
    /\ LET r == RedisCertGetterUnmarshalCaddyfile(rcg, rcgInput)
       IN  /\ rcg' = r.rcg
           /\ rcgPhase' = IF r.err = NoErr THEN "parsed" ELSE "rejected"
    /\ UNCHANGED <<decVars, store, storeUp, mInput, mPhase, m, req, rcgInput, hs>>

\* the adapted block is consumed; the module decoded from the getter's
\* JSON is provisioned
ProvisionTLS ==
    /\ rcgPhase = "parsed"
    /\ rcg' = RedisCertGetterProvision(RedisCertGetterFromJSON(rcg))
    /\ rcgPhase' = "ready"
    /\ rcgInput' = <<>>
    /\ UNCHANGED <<decVars, store, storeUp, mInput, mPhase, m, req, hs>>

\* a handshake is served; one still in flight when the config is unloaded
\* is served on the closed client
GetCertificate(serverName) ==
    /\ rcgPhase \in {"ready", "closed"}
    /\ LET call == GetCertificateCall(serverName)
       IN  hs' = [tick |-> ~hs.tick, served |-> TRUE, name |-> serverName,
                  reads |-> call.reads, outcome |-> call.outcome,
                  prev |-> IF hs.served /\ hs.name = serverName
                           THEN hs.outcome ELSE NoOutcome]
    /\ UNCHANGED <<decVars, store, storeUp, mInput, mPhase, m, req, rcgInput, rcgPhase, rcg>>

\* the config is unloaded: RedisCertGetter.Cleanup
CleanupTLS ==
    /\ rcgPhase = "ready"
    /\ rcg' = RedisCertGetterCleanup(rcg)
    /\ rcgPhase' = "closed"
    /\ UNCHANGED <<decVars, store, storeUp, mInput, mPhase, m, req, rcgInput, hs>>

\* a tenant's token is written to the store
HSetToken(cell, token) ==
    /\ mPhase \in {"ready", "closed"}
    /\ store' = [store EXCEPT ![cell] = Present(token)]
    /\ UNCHANGED <<decVars, storeUp, mInput, mPhase, m, req, rcgInput, rcgPhase, rcg, hs>>

\* a tenant's bundle is written to the store
HSetCert(cell, bundle) ==
    /\ rcgPhase \in {"ready", "closed"}
    /\ store' = [store EXCEPT ![cell] = Present(bundle)]
    /\ UNCHANGED <<decVars, storeUp, mInput, mPhase, m, req, rcgInput, rcgPhase, rcg, hs>>

\* a field is removed from the store
HDel(cell) ==
    /\ store[cell].present
    /\ store' = [store EXCEPT ![cell] = Absent]
    /\ UNCHANGED <<decVars, storeUp, mInput, mPhase, m, req, rcgInput, rcgPhase, rcg, hs>>

\* the store becomes unreachable, or reachable again
StoreToggle ==
    /\ mPhase = "ready" \/ rcgPhase = "ready"
    /\ storeUp' = ~storeUp
    /\ UNCHANGED <<decVars, store, mInput, mPhase, m, req, rcgInput, rcgPhase, rcg, hs>>

NextDecode == DecodeLoop \/ DecodeChecks \/ DecodeKeyPair

NextResolver ==
    \/ ParseRouting
    \/ ProvisionRouting
    \/ \E host \in Hosts : ServeHTTP(host)
    \/ CleanupRouting
    \/ ParseTLS
    \/ ProvisionTLS
    \/ \E serverName \in ServerNames : GetCertificate(serverName)
    \/ CleanupTLS
    \/ \E cell \in DOMAIN store, token \in Tokens : HSetToken(cell, token)
    \/ \E cell \in DOMAIN store, bundle \in StoredBundles : HSetCert(cell, bundle)
    \/ \E cell \in DOMAIN store : HDel(cell)
    \/ StoreToggle

Next == NextDecode \/ NextResolver

\* the decoder run on every bundle
SpecDecode == InitDecode /\ [][NextDecode]_vars

\* a resolver of either kind, from its Caddyfile block to serving
SpecResolver == InitResolver /\ [][NextResolver]_vars

Spec == (InitDecode \/ InitResolver) /\ [][Next]_vars

(***************************************************************************)
(* Properties of the bundle decoder (checked under SpecDecode)             *)
(***************************************************************************)
IsPrivateKeyType(t) == t = PRIVATE_KEY \/ HasSuffixPrivateKey(t)
IsKeyBearing(t) == t = EC_PARAMETERS \/ IsPrivateKeyType(t)
IsRecognized(t) == t = CERTIFICATE \/ IsKeyBearing(t)

CertificateBlocks(b) == SelectSeq(b, LAMBDA x : x.Type = CERTIFICATE)

KeyBearingAt(b) == { i \in 1..Len(b) : IsKeyBearing(b[i].Type) }
UnrecognizedAt(b) == { i \in 1..Len(b) : ~IsRecognized(b[i].Type) }
Least(S) == CHOOSE i \in S : \A j \in S : i <= j

\* the first key-bearing block of a bundle: an EC PARAMETERS block with
\* the block after it, or a single private key block
FirstKeyBlocks(b) ==
    LET i == Least(KeyBearingAt(b))
    IN  IF b[i].Type = EC_PARAMETERS THEN SubSeq(b, i, i + 1) ELSE <<b[i]>>

\* the blocks the scan has taken from the bundle so far
Consumed == SubSeq(input, 1, Len(input) - Len(dec.bundle))
KeyFoundSoFar == \E i \in 1..Len(Consumed) : IsPrivateKeyType(Consumed[i].Type)

\* C3: when decode reaches key-pair construction, the chain accumulator
\* holds exactly the CERTIFICATE blocks of the bundle in encounter order
\* and the key accumulator exactly the first key-bearing block (an EC
\* PARAMETERS block with the EC PRIVATE KEY block right after it, or one
\* private key block); no later key block is added.
C3_AccumulatorsAtKeyPair ==
    dec.pc = "keypair" =>
        /\ dec.certBuilder = CertificateBlocks(input)
        /\ KeyBearingAt(input) # {}
        /\ dec.keyBuilder = FirstKeyBlocks(input)
        /\ dec.keyBuilder[Len(dec.keyBuilder)].Type # EC_PARAMETERS

\* C3 witness: key-pair construction is reached on a bundle with a
\* certificate after its first key and a further key block after that
C3_Witness ==
    /\ dec.pc = "keypair"
    /\ \E i, j, k \in 1..Len(input) :
          /\ i < j /\ j < k
          /\ i = Least(KeyBearingAt(input))
          /\ input[j].Type = CERTIFICATE
          /\ IsPrivateKeyType(input[k].Type)
          /\ k > i + 1

ScanCompleted ==
    \/ dec.pc = "keypair"
    \/ dec.pc = "done" /\ dec.err \in {NoErr, ErrParsePEM, ErrNoKey, ErrKeyPair}

\* C4: after a scan without structural error the chain is tested before
\* the key: a bundle without CERTIFICATE block (empty, or only keys) fails
\* with the chain-empty error, and the key-missing error is returned only
\* when a CERTIFICATE block was accumulated and no key block was.
C4_ChainTestedFirst ==
    ScanCompleted =>
        /\ CertificateBlocks(input) = <<>> =>
              dec.pc = "done" /\ dec.err = ErrParsePEM
        /\ dec.err = ErrNoKey =>
              CertificateBlocks(input) # <<>> /\ KeyBearingAt(input) = {}

\* C4 witness: a bundle of private key blocks only has failed with the
\* chain-empty error
C4_Witness ==
    /\ dec.pc = "done"
    /\ dec.err = ErrParsePEM
    /\ input # <<>>
    /\ \A i \in 1..Len(input) : IsPrivateKeyType(input[i].Type)
    /\ dec.keyBuilder # <<>>

\* C5: an EC PARAMETERS block reached while no key has been found must be
\* followed at once by an EC PRIVATE KEY block, or decode fails with the
\* EC-pairing error; an EC PARAMETERS block reached after a key was found
\* raises nothing and takes no lookahead block: the scan goes on with the
\* block right after it and the accumulators as they were.
C5_ECPairing ==
    [][ (dec.pc = "loop" /\ dec.bundle # <<>>
            /\ Head(dec.bundle).Type = EC_PARAMETERS) =>
        IF ~KeyFoundSoFar
        THEN \/ /\ Len(dec.bundle) >= 2
                /\ dec.bundle[2].Type = EC_PRIVATE_KEY
                /\ dec'.pc = "loop"
             \/ dec'.pc = "done" /\ dec'.err = ErrECPairing
        ELSE dec' = [dec EXCEPT !.bundle = Tail(dec.bundle)] ]_vars

\* C5 witness: an EC PARAMETERS block after the key was passed over and
\* the certificate right after it was appended to the chain
C5_Witness ==
    /\ dec.err = NoErr
    /\ \E i \in 2..(Len(input) - 1) :
          /\ IsPrivateKeyType(input[1].Type)
          /\ input[i].Type = EC_PARAMETERS
          /\ input[i + 1].Type = CERTIFICATE
          /\ Len(Consumed) = i + 1
          /\ dec.certBuilder = CertificateBlocks(Consumed)
          /\ dec.certBuilder # <<>>
          /\ dec.certBuilder[Len(dec.certBuilder)] = input[i + 1]

\* C6 as stated: decode of a bundle holding a block of an unrecognized
\* type fails with 'unrecognized PEM block type' naming that type (the
\* first such block's, when there are several), whatever precedes it.
C6_UnrecognizedWhateverPrecedes ==
    (dec.pc = "done" /\ UnrecognizedAt(input) # {}) =>
        dec.err = ErrUnrecognized(input[Least(UnrecognizedAt(input))].Type)

\* whether the first key-bearing block before position u is an EC
\* PARAMETERS block not followed at once by an EC PRIVATE KEY block
UnpairedECParametersBefore(b, u) ==
    LET before == { i \in KeyBearingAt(b) : i < u }
    IN  /\ before # {}
        /\ b[Least(before)].Type = EC_PARAMETERS
        /\ b[Least(before) + 1].Type # EC_PRIVATE_KEY

\* C6 amended: decode of a bundle holding a block of an unrecognized type
\* always fails: with 'unrecognized PEM block type' naming the first such
\* block's type, unless the first key-bearing block before it is an EC
\* PARAMETERS block not followed at once by an EC PRIVATE KEY block, and
\* then with the EC-pairing error.
C6_UnrecognizedUnlessUnpairedEC ==
    (dec.pc = "done" /\ UnrecognizedAt(input) # {}) =>
        LET u == Least(UnrecognizedAt(input))
        IN  dec.err = IF UnpairedECParametersBefore(input, u)
                      THEN ErrECPairing
                      ELSE ErrUnrecognized(input[u].Type)

\* C6 witness: a FOO block right after an EC PARAMETERS block, no key
\* found before, ended in the EC-pairing error
C6_Witness ==
    /\ dec.pc = "done"
    /\ dec.err = ErrECPairing
    /\ \E i \in 1..(Len(input) - 1) :
          /\ input[i].Type = EC_PARAMETERS
          /\ input[i + 1].Type = FOO
          /\ i = Least(KeyBearingAt(input))
          /\ i + 1 = Least(UnrecognizedAt(input))

(***************************************************************************)
(* Properties of the resolvers (checked under SpecResolver)                *)
(***************************************************************************)
\* the field value a read of <<key, field>> finds now
FieldNow(key, field) ==
    IF <<key, field>> \in DOMAIN store THEN store[<<key, field>>] ELSE Absent

\* the offsets at which the placeholder occurs in a template
OccurrencesAt(t) ==
    { i \in 1..Len(t) : i + Len(Placeholder) - 1 <= Len(t)
                        /\ SubSeq(t, i, i + Len(Placeholder) - 1) = Placeholder }

\* the template with its first placeholder, if any, replaced by the token
\* and the rest of it left as written
FirstOccurrenceReplaced(t, token) ==
    IF OccurrencesAt(t) = {} THEN t
    ELSE LET i == Least(OccurrencesAt(t))
         IN  SubSeq(t, 1, i - 1) \o token \o SubSeq(t, i + Len(Placeholder), Len(t))

\* a request is served in this step
Serves == req'.tick # req.tick

\* whether a fetch of the token for host succeeds now, and the error it
\* ends in when it does not
TokenField(host) == FieldNow(Key(m.Prefix, host), m.TokenKey)
FetchSucceeds(client, field) == ~IsClosed(client) /\ storeUp /\ field.present
FetchError(client) ==
    IF IsClosed(client) THEN ErrClosed ELSE IF ~storeUp THEN ErrDial ELSE RedisNil

\* C1: when the fetch succeeds, ServeHTTP leaves the request's host equal
\* to the template with only its first {{token}} replaced by the stored
\* token when the token is non-empty, and to the incoming host when the
\* token is the empty string.
C1_HostAfterFetch ==
    [][ (Serves /\ FetchSucceeds(m.redisClient, TokenField(req'.host))) =>
        LET token == TokenField(req'.host).val
        IN  req'.outHost = IF token # EmptyString
                           THEN FirstOccurrenceReplaced(m.Domain, token)
                           ELSE req'.host ]_vars

\* C1 witness: a template with two placeholders was instantiated, the
\* second placeholder left in place
C1_Witness ==
    /\ req.served
    /\ req.fetchErr = NoErr
    /\ req.token = TokenAB
    /\ m.Domain = TemplateTwice
    /\ req.outHost = TokenAB \o <<"-">> \o Placeholder

\* C2: when the fetch fails (store unreachable, record or field absent,
\* client closed), ServeHTTP returns that error, the request's host is as
\* received and the next handler is not called.
C2_FailsClosed ==
    [][ (Serves /\ ~FetchSucceeds(m.redisClient, TokenField(req'.host))) =>
        /\ req'.ret = FetchError(m.redisClient)
        /\ req'.outHost = req'.host
        /\ req'.nextCalls = 0 ]_vars

\* C2 witness: a request failed on an unreachable store, host untouched,
\* next handler not called
C2_Witness ==
    /\ req.served
    /\ mPhase = "ready"
    /\ ~storeUp
    /\ req.ret = ErrDial
    /\ req.outHost = req.host
    /\ req.nextCalls = 0

\* C10 as stated: for every request, ServeHTTP calls the next handler
\* exactly once.
C10_AlwaysDelegates ==
    req.served => req.nextCalls = 1

\* C10 amended: for every request whose store fetch succeeds, ServeHTTP
\* calls the next handler exactly once, the host rewritten or not; when
\* the fetch fails it returns without calling it.
C10_DelegatesOnceAfterFetch ==
    [][ Serves =>
        req'.nextCalls =
            IF FetchSucceeds(m.redisClient, TokenField(req'.host)) THEN 1 ELSE 0 ]_vars

\* C10 witness: an empty token left the host as it was and the next
\* handler was called once
C10_Witness ==
    /\ req.served
    /\ req.fetchErr = NoErr
    /\ req.token = EmptyString
    /\ req.outHost = req.host
    /\ req.nextCalls = 1

\* what a handshake must return given the field value at its read
OutcomeOfField(client, field) ==
    IF ~FetchSucceeds(client, field) THEN [cert |-> <<>>, err |-> FetchError(client)]
    ELSE tlsCertFromCertAndKeyPEMBundle(field.val)

\* C7: the certificate getter keeps nothing between handshakes: every
\* GetCertificate call makes one store read, of key {prefix}:{serverName}
\* and the configured field, and returns what the field value present at
\* that read decides.
C7_NoCaching ==
    [][ hs'.tick # hs.tick =>
        /\ hs'.reads = <<[key |-> Key(rcg.Prefix, hs'.name), field |-> rcg.CertKey]>>
        /\ hs'.outcome =
              OutcomeOfField(rcg.redisClient,
                             FieldNow(Key(rcg.Prefix, hs'.name), rcg.CertKey)) ]_vars

\* C7 witness: a handshake served a certificate other than the one the
\* handshake before it served for the same name (the bundle was rotated)
C7_Witness ==
    /\ hs.served
    /\ hs.prev.err = NoErr /\ hs.prev.cert # <<>>
    /\ hs.outcome.err = NoErr /\ hs.outcome.cert # <<>>
    /\ hs.outcome.cert # hs.prev.cert

\* the value the block gives option k, or the default
ValuesGiven(lines, k) ==
    SelectSeq(lines, LAMBDA l : l.key = k /\ l.args # <<>>)
OptionOrDefault(lines, k, default) ==
    IF ValuesGiven(lines, k) = <<>> THEN default
    ELSE Head(ValuesGiven(lines, k)[Len(ValuesGiven(lines, k))].args)

SettingsAsDocumented(lines, prefix, field, fieldOption, fieldDefault, options) ==
    /\ prefix = OptionOrDefault(lines, "prefix", DefaultPrefix)
    /\ field = OptionOrDefault(lines, fieldOption, fieldDefault)
    /\ options.Addr = JoinAddr(OptionOrDefault(lines, "host", DefaultHost),
                               OptionOrDefault(lines, "port", DefaultPort))
    /\ options.DB = Atoi(OptionOrDefault(lines, "db", <<"0">>)).n

\* C8 as stated: after UnmarshalCaddyfile of either resolver every option
\* absent from the block has its default in the resolver's settings (address
\* 127.0.0.1:6379, db 0, prefix 's', field 'cert' or 'token') and every
\* option given a value has that value.
C8_DefaultsApplied ==
    /\ mPhase = "parsed" =>
          SettingsAsDocumented(mInput, m.Prefix, m.TokenKey, "tokenKey",
                               DefaultTokenKey, m.redisOptions)
    /\ rcgPhase = "parsed" =>
          SettingsAsDocumented(rcgInput, rcg.Prefix, rcg.CertKey, "certKey",
                               DefaultCertKey, rcg.redisOptions)

\* C9 as stated: a routing block without the domain template is rejected
\* when parsed or provisioned, so no middleware serves requests with an
\* empty template.
C9_MissingTemplateRejected ==
    /\ mPhase = "parsed" => \E i \in 1..Len(mInput) : mInput[i].key = "domain"
    /\ mPhase = "ready" => m.Domain # EmptyString

=============================================================================
